---- MODULE Spec2Model ----
(***************************************************************************)
(* Verification model of the Geode front-end (pkg/ast): the function       *)
(* compiler (Program.GetFunction / Program.FindFunction), the file and     *)
(* package loader (Program.ParsePath and friends), the dependency resolver *)
(* (ResolveDepPath), the type-cast engine (createTypeCast), the driver     *)
(* (Program.Congeal) and the lowering of If, While and For nodes.          *)
(***************************************************************************)
EXTENDS Integers, Sequences, FiniteSets, TLC

(***************************************************************************)
(* Bounds of the model.                                                    *)
(***************************************************************************)
\* longest argument-type tuple a caller supplies
MaxArgs == 2
\* longest candidate list handed to FindFunction by a top-level caller
MaxNames == 2
\* number of scope handles besides the root
MaxScopes == 5

(***************************************************************************)
(* Types (llir types as seen through types.IsInt / IsFloat / IsPointer).   *)
(***************************************************************************)
IntTypes == {"i1", "i8", "i16", "i32", "i64"}
FloatTypes == {"float", "double"}
PointerTypes == {"i8*", "i32*"}

IsInt(t) == t \in IntTypes
IsFloat(t) == t \in FloatTypes
IsPointer(t) == t \in PointerTypes

\* types.IsNumber
IsNumber(t) == IsInt(t) \/ IsFloat(t)

\* typesAreLooselyEqual(a, b)
typesAreLooselyEqual(a, b) == IsNumber(a) /\ IsNumber(b)

(***************************************************************************)
(* The function compiler.                                                  *)
(***************************************************************************)
\* the argument types a caller of GetFunction supplies
ArgTypeNames == {"i32", "double", "i8*"}

\* FunctionCompilationOptions: ArgTypes is a Go slice, nil or a tuple
NilArgs == [nil |-> TRUE, types |-> <<>>]
Args(ts) == [nil |-> FALSE, types |-> ts]

SeqsUpTo(S, n) == UNION {[1..k -> S] : k \in 0..n}

ArgOptions == {NilArgs} \cup {Args(ts) : ts \in SeqsUpTo(ArgTypeNames, MaxArgs)}

Param(t, u) == [Type |-> t, Unknown |-> u]

\* a call in a function body: a call expression goes through FindFunction,
\* a runtime call goes straight to GetFunction (NewRuntimeFunctionCall)
CallItem(names, args, direct) == [names |-> names, args |-> args, direct |-> direct]

\* a FunctionNode; fragile: resolving its types can fail in Arguments or in
\* Declare, and lowering its body can fail
Fn(name, pkg, params, variadic, nomangle, external, fragile, body) ==
    [Name |-> name, Package |-> pkg, Args |-> params, Variadic |-> variadic,
     Nomangle |-> nomangle, External |-> external, Fragile |-> fragile,
     Body |-> body]

\* a program whose functions call across packages, a variadic function and a
\* runtime function among them
RegNest ==
    [n \in {"m:f", "lib:g", "puts"} |->
        CASE n = "m:f" ->
               Fn("f", "m", <<Param("i32", FALSE)>>, FALSE, FALSE, FALSE, FALSE,
                  <<CallItem(<<"m:g", "lib:g">>, Args(<<"i32">>), FALSE)>>)
          [] n = "lib:g" ->
               Fn("g", "lib", <<Param("i32", FALSE)>>, TRUE, FALSE, FALSE, FALSE,
                  <<CallItem(<<"puts">>, NilArgs, TRUE)>>)
          [] OTHER ->
               Fn("puts", "runtime", <<Param("i8*", FALSE)>>, FALSE, TRUE, TRUE, FALSE,
                  <<>>)]

\* a program with a function of an unknown parameter type that calls itself
\* at another type
RegPoly ==
    [n \in {"lib:id", "main"} |->
        CASE n = "lib:id" ->
               Fn("id", "lib", <<Param("T", TRUE)>>, FALSE, FALSE, FALSE, FALSE,
                  <<CallItem(<<"lib:id">>, Args(<<"double">>), FALSE)>>)
          [] OTHER ->
               Fn("main", "m", <<>>, FALSE, FALSE, FALSE, FALSE,
                  <<CallItem(<<"m:id", "lib:id">>, Args(<<"i32">>), FALSE)>>)]

\* a program with a function whose compilation can fail
RegFail ==
    [n \in {"m:bad", "m:ok"} |->
        CASE n = "m:bad" ->
               Fn("bad", "m", <<>>, FALSE, FALSE, FALSE, TRUE,
                  <<CallItem(<<"m:ok">>, Args(<<>>), FALSE)>>)
          [] OTHER ->
               Fn("ok", "m", <<>>, FALSE, FALSE, TRUE, FALSE, <<>>)]

Registries == {RegNest, RegPoly, RegFail}

\* a name no program registers
Unregistered == "m:g"

\* the argument types a top-level caller hands to FindFunction
FindArgOptions == {Args(<<>>), Args(<<"i32">>)}

VARIABLES
    Functions,      \* Program.Functions: qualified name -> FunctionNode
    Package,        \* Program.Package: name of the active package ("" = nil)
    Scope,          \* Program.Scope: handle of the active scope
    scopeParent,    \* the scope tree: handle -> handle of the parent (0 = none)
    RootPackageName,\* the PackageName field of the root scope
    Compiler,       \* Program.Compiler: the cursor, the IR function emitted into
    Variants,       \* FunctionNode.Variants of every registered function
    NameCache,      \* FunctionNode.NameCache of every registered function
    stack,          \* the activations of FindFunction and GetFunction
    ret,            \* the value just returned by GetFunction or FindFunction
    declRuns,       \* history: number of runs of Declare per variant key
    genRuns,        \* history: number of runs of body Codegen per variant key
    first           \* history: a call of GetFunction and the function it returned

fnVars == <<Functions, Package, Scope, scopeParent, RootPackageName, Compiler,
            Variants, NameCache, stack, ret, declRuns, genRuns, first>>

VARIABLES
    Disk,           \* the file system: directories, their listings, the source files
    ParsedFiles,    \* Program.ParsedFiles
    Packages,       \* Program.Packages: key -> handle of a Package
    pkgs,           \* the Package objects, by handle
    CLinkages,      \* Program.CLinkages
    logged,         \* the namespace names log.Error was called with
    loadStack,      \* the activations of ParsePath and ParseText
    fatal,          \* log.Fatal was called: the process is gone
    resolved,       \* the last call of ResolveDepPath and what it returned
    calls           \* history: number of calls made by the loader's caller

loadVars == <<Disk, ParsedFiles, Packages, pkgs, CLinkages, logged, loadStack,
              fatal, resolved, calls>>

VARIABLES
    block,          \* prog.Compiler.CurrentBlock(): the instructions appended
    cast            \* the last call of createTypeCast and what it returned

castVars == <<block, cast>>

VARIABLES
    Classes,        \* Program.Classes: qualified name -> ClassNode
    packagedNodes,  \* Congeal's list nodes, of packaged nodes
    congeal,        \* the position of Congeal in its loops
    events,         \* history: the calls Congeal made on class and global nodes
    congealed       \* what Congeal returned

congealVars == <<Classes, packagedNodes, congeal, events, congealed>>

VARIABLES
    lowering        \* the last Codegen of a control-flow node: the IR before and after

lowerVars == <<lowering>>

vars == <<fnVars, loadVars, castVars, congealVars, lowerVars>>

\* the names a caller looks up: the registered ones and one that is not
CandidateNames == DOMAIN Functions \cup {Unregistered}

RootScope == 1
ScopeIds == 1..(MaxScopes + 1)

\* Scope.GetRoot
RECURSIVE GetRoot(_)
GetRoot(s) == IF scopeParent[s] = 0 THEN s ELSE GetRoot(scopeParent[s])

RECURSIVE Ancestors(_)
Ancestors(s) == IF s = 0 THEN {} ELSE {s} \cup Ancestors(scopeParent[s])

\* the scopes still referenced: by the Program, or by a saved previousScope
LiveScopes(stk, cur) ==
    {RootScope} \cup Ancestors(cur)
      \cup UNION {Ancestors(stk[i].previousScope) : i \in 1..Len(stk)}

\* Scope.SpawnChild allocates a scope object: a handle no live scope holds
FreeScopes(stk) == ScopeIds \ LiveScopes(stk, Scope)
SpawnChild(stk) == CHOOSE s \in FreeScopes(stk) : \A t \in FreeScopes(stk) : s <= t

\* the scope tree without the scopes nothing refers to any more
Collect(parent, stk, cur) ==
    [s \in ScopeIds |-> IF s \in LiveScopes(stk, cur) \/ s = cur THEN parent[s] ELSE 0]

NoFn == [key |-> [mangled |-> FALSE, name |-> "", types |-> <<>>], n |-> 0]

\* FunctionNode.MangledName: name and effective parameter types
MangledName(node, types) ==
    [mangled |-> TRUE, name |-> node.Package \o ":" \o node.Name, types |-> types]

\* the key of a no-mangle function: node.Name.Value
PlainName(node) == [mangled |-> FALSE, name |-> node.Name, types |-> <<>>]

\* an arity check that holds a variadic function to its exact parameter count
ArityErrorExact(node, args) ==
    /\ ~args.nil
    /\ Len(node.Args) # Len(args.types)

\* the arity check of GetFunction
ArityError(node, args) ==
    /\ ~args.nil
    /\ Len(node.Args) # Len(args.types)
    /\ IF node.Variadic THEN Len(node.Args) > Len(args.types) ELSE TRUE

\* the type check of GetFunction
TypeError(node, args) ==
    /\ ~args.nil
    /\ ~node.Variadic
    /\ \E i \in 1..Len(node.Args) :
          /\ node.Args[i].Type # args.types[i]
          /\ ~typesAreLooselyEqual(args.types[i], node.Args[i].Type)
          /\ ~node.Args[i].Unknown

\* correctTypes of GetFunction
CorrectTypes(node, args) ==
    IF ~args.nil /\ ~node.Variadic
    THEN [i \in 1..Len(node.Args) |->
            IF node.Args[i].Unknown THEN args.types[i] ELSE node.Args[i].Type]
    ELSE <<>>

\* the value GetFunction computes for node.NameCache
VariantKey(node, args) ==
    IF node.Nomangle THEN PlainName(node) ELSE MangledName(node, CorrectTypes(node, args))

Count(runs, key) == IF key \in DOMAIN runs THEN runs[key] ELSE 0
Bump(runs, key) ==
    [k \in DOMAIN runs \cup {key} |-> IF k = key THEN Count(runs, key) + 1 ELSE runs[k]]
Put(m, key, v) == [k \in DOMAIN m \cup {key} |-> IF k = key THEN v ELSE m[k]]

AtCall == [Package |-> Package, Scope |-> Scope, Compiler |-> Compiler,
           Variants |-> Variants, RootPackageName |-> RootPackageName]

NoAt == [Package |-> "", Scope |-> 0, Compiler |-> NoFn,
         Variants |-> <<>>, RootPackageName |-> ""]

NoRet == [from |-> "none", kind |-> "none", fn |-> NoFn, site |-> "",
          name |-> "", args |-> NilArgs, names |-> <<>>, tried |-> <<>>,
          declared |-> FALSE, lowered |-> FALSE, at |-> NoAt]

\* a return of GetFunction(name, args)
GetRet(kind, fn, site, name, args, declared, lowered, at) ==
    [from |-> "get", kind |-> kind, fn |-> fn, site |-> site,
     name |-> name, args |-> args, names |-> <<>>, tried |-> <<>>,
     declared |-> declared, lowered |-> lowered, at |-> at]

\* a return of FindFunction(names, args)
FindRet(kind, fn, site, names, args, tried, at) ==
    [from |-> "find", kind |-> kind, fn |-> fn, site |-> site,
     name |-> "", args |-> args, names |-> names, tried |-> tried,
     declared |-> FALSE, lowered |-> FALSE, at |-> at]

GetFrame(name, args, pp, ps, pc, gen, at) ==
    [kind |-> "get", name |-> name, args |-> args, names |-> <<>>, idx |-> 0,
     tried |-> <<>>, previousPackage |-> pp, previousScope |-> ps,
     previousCompiler |-> pc, gen |-> gen, bi |-> 1, at |-> at]

FindFrame(names, args, at) ==
    [kind |-> "find", name |-> "", args |-> args, names |-> names, idx |-> 1,
     tried |-> <<>>, previousPackage |-> "", previousScope |-> 0,
     previousCompiler |-> NoFn, gen |-> NoFn, bi |-> 0, at |-> at]

Top == stack[Len(stack)]
Pop(stk) == SubSeq(stk, 1, Len(stk) - 1)
SetTop(stk, f) == [stk EXCEPT ![Len(stk)] = f]

\* the saved program state of GetFunction
Save == [previousPackage |-> Package, previousScope |-> Scope,
         previousCompiler |-> Compiler]

\* a restore that forgets the scope
RestoreKeepsScope(saved) ==
    [Package |-> saved.previousPackage, Scope |-> Scope,
     Compiler |-> saved.previousCompiler]

\* the program state GetFunction restores before it returns a function
Restore(saved) ==
    [Package |-> saved.previousPackage, Scope |-> saved.previousScope,
     Compiler |-> saved.previousCompiler]

\* history of returned functions: not kept, or kept and still empty
Untracked == [name |-> "-", args |-> NilArgs, fn |-> NoFn]
NoFirst == [name |-> "", args |-> NilArgs, fn |-> NoFn]

\* the history may keep the first successful return of GetFunction it sees
FirstAfter(r) ==
    IF first = NoFirst /\ r.from = "get" /\ r.kind = "fn"
    THEN {first, [name |-> r.name, args |-> r.args, fn |-> r.fn]}
    ELSE {first}

\* NewProgram, with the registry as RegisterFunction leaves it
NewProgram(registry) ==
    /\ Functions = registry
    /\ Package = ""
    /\ Scope = RootScope
    /\ scopeParent = [s \in ScopeIds |-> 0]
    /\ RootPackageName = ""
    /\ Compiler = NoFn
    /\ Variants = [n \in DOMAIN Functions |-> <<>>]
    /\ NameCache = [n \in DOMAIN Functions |-> PlainName([Name |-> ""])]
    /\ stack = <<>>
    /\ ret = NoRet
    /\ declRuns = <<>>
    /\ genRuns = <<>>

\* the loader with nothing on disk and nothing loaded
NoDisk == [Dirs |-> {}, Listing |-> <<>>, Source |-> <<>>]
NoResolved == [called |-> FALSE]
LoadAtRest ==
    /\ Disk = NoDisk
    /\ resolved = NoResolved
    /\ ParsedFiles = <<>>
    /\ Packages = <<>>
    /\ pkgs = <<>>
    /\ CLinkages = <<>>
    /\ logged = <<>>
    /\ loadStack = <<>>
    /\ fatal = FALSE
    /\ calls = 0

\* the cast engine before the first cast
NoCast == [called |-> FALSE, n |-> 0]
CastAtRest == block = <<>> /\ cast = NoCast

\* no control-flow node lowered yet
NotLowered == [called |-> FALSE]
LowerAtRest == lowering = NotLowered

\* the driver before Congeal is called
NotCongealed == [returned |-> FALSE]
CongealIdle == [pc |-> "idle", todo |-> {}, i |-> 1]
CongealAtRest ==
    /\ Classes = <<>>
    /\ packagedNodes = <<>>
    /\ congeal = CongealIdle
    /\ events = <<>>
    /\ congealed = NotCongealed

InitFn == (\E registry \in Registries : NewProgram(registry)) /\ first = Untracked /\ LoadAtRest /\ CastAtRest /\ CongealAtRest /\ LowerAtRest

\* the outcomes of node.Arguments, node.Declare and of lowering the node's own
\* statements: they can fail for a fragile function only
Outcomes(name) ==
    IF name \in DOMAIN Functions /\ Functions[name].Fragile THEN BOOLEAN ELSE {TRUE}

\* Program.GetFunction(name, options) up to its first return or up to the
\* start of body lowering; base holds the activations of the callers.
\* argsOk, declOk: whether node.Arguments and node.Declare succeed.
GetFunctionEnter(name, args, base, argsOk, declOk) ==
    IF name \notin DOMAIN Functions
    THEN /\ ret' = GetRet("nil", NoFn, "registry", name, args, FALSE, FALSE, AtCall)
         /\ stack' = base
         /\ UNCHANGED <<loadVars, castVars, congealVars, lowerVars>>
         /\ UNCHANGED <<Functions, Package, Scope, scopeParent, RootPackageName,
                        Compiler, Variants, NameCache, declRuns, genRuns, first>>
    ELSE
      LET node == Functions[name]
          saved == Save
          root == GetRoot(Scope)
          child == SpawnChild(base)
          key == VariantKey(node, args)
          site == IF ~argsOk THEN "arguments"
                  ELSE IF ArityError(node, args) THEN "arity"
                  ELSE IF TypeError(node, args) THEN "type"
                  ELSE IF key \in DOMAIN Variants[name] THEN "cached"
                  ELSE IF ~declOk THEN "declare"
                  ELSE IF node.External THEN "external"
                  ELSE "codegen"
          gen == [key |-> key, n |-> Count(declRuns, key) + 1]
          r == CASE site \in {"arguments", "arity", "type"} ->
                      GetRet("err", NoFn, site, name, args, FALSE, FALSE, AtCall)
                 [] site = "declare" ->
                      GetRet("err", NoFn, site, name, args, TRUE, FALSE, AtCall)
                 [] site = "cached" ->
                      GetRet(IF Variants[name][key] = NoFn THEN "nil" ELSE "fn",
                             Variants[name][key], site, name, args, FALSE, FALSE, AtCall)
                 [] site = "external" ->
                      GetRet("fn", gen, site, name, args, TRUE, FALSE, AtCall)
                 [] OTHER -> NoRet
      IN /\ FreeScopes(base) # {}
         /\ RootPackageName' = node.Package
         /\ NameCache' = IF site \in {"arguments", "arity", "type"}
                          THEN NameCache
                          ELSE [NameCache EXCEPT ![name] = key]
         /\ Variants' = CASE site = "declare" ->
                               [Variants EXCEPT ![name] = Put(@, key, NoFn)]
                           [] site \in {"external", "codegen"} ->
                               [Variants EXCEPT ![name] = Put(@, key, gen)]
                           [] OTHER -> Variants
         /\ declRuns' = IF site \in {"declare", "external", "codegen"}
                         THEN Bump(declRuns, key) ELSE declRuns
         /\ genRuns' = IF site = "codegen" THEN Bump(genRuns, key) ELSE genRuns
         /\ IF site \in {"cached", "external"}
            THEN /\ Package' = Restore(saved).Package
                 /\ Scope' = Restore(saved).Scope
                 /\ Compiler' = Restore(saved).Compiler
            ELSE /\ Package' = node.Package
                 /\ Scope' = child
                 /\ Compiler' = IF site = "codegen" THEN gen ELSE Compiler
         /\ stack' = IF site = "codegen"
                      THEN Append(base, GetFrame(name, args, saved.previousPackage,
                                                 saved.previousScope,
                                                 saved.previousCompiler, gen, AtCall))
                      ELSE base
         /\ scopeParent' = Collect([scopeParent EXCEPT ![child] = root], stack', Scope')
         /\ ret' = r
         /\ first' \in FirstAfter(r)
         /\ UNCHANGED <<loadVars, castVars, congealVars, lowerVars>>
         /\ UNCHANGED Functions

Idle == stack = <<>> /\ ret.from = "none"

\* a caller outside the function compiler calls GetFunction
CallGetFunction ==
    /\ Idle
    /\ \E name \in CandidateNames, args \in ArgOptions :
         \E argsOk \in Outcomes(name), declOk \in Outcomes(name) :
            GetFunctionEnter(name, args, <<>>, argsOk, declOk)

\* a caller outside the function compiler calls FindFunction
CallFindFunction ==
    /\ Idle
    /\ \E names \in SeqsUpTo(CandidateNames, MaxNames), args \in FindArgOptions :
          stack' = <<FindFrame(names, args, AtCall)>>
    /\ UNCHANGED <<loadVars, castVars, congealVars, lowerVars>>
    /\ UNCHANGED <<Functions, Package, Scope, scopeParent, RootPackageName,
                   Compiler, Variants, NameCache, ret, declRuns, genRuns, first>>

\* FindFunction: the next turn of the loop over searchNames calls GetFunction
FindFunctionNext ==
    /\ stack # <<>> /\ Top.kind = "find" /\ ret.from = "none"
    /\ Top.idx <= Len(Top.names)
    /\ \E argsOk \in Outcomes(Top.names[Top.idx]),
          declOk \in Outcomes(Top.names[Top.idx]) :
          GetFunctionEnter(Top.names[Top.idx], Top.args, stack, argsOk, declOk)

\* FindFunction: the loop is over, "unable to find function"
FindFunctionFail ==
    /\ stack # <<>> /\ Top.kind = "find" /\ ret.from = "none"
    /\ Top.idx > Len(Top.names)
    /\ ret' = FindRet("err", NoFn, "notfound", Top.names, Top.args, Top.tried, Top.at)
    /\ stack' = Pop(stack)
    /\ UNCHANGED <<loadVars, castVars, congealVars, lowerVars>>
    /\ UNCHANGED <<Functions, Package, Scope, scopeParent, RootPackageName,
                   Compiler, Variants, NameCache, declRuns, genRuns, first>>

\* FindFunction: what the loop does with the value GetFunction returned
FindFunctionGot ==
    /\ stack # <<>> /\ Top.kind = "find" /\ ret.from = "get"
    /\ LET tried == Append(Top.tried, [name |-> ret.name, kind |-> ret.kind,
                                       fn |-> ret.fn, site |-> ret.site])
       IN IF ret.kind = "nil"
          THEN /\ stack' = SetTop(stack, [Top EXCEPT !.idx = @ + 1, !.tried = tried])
               /\ ret' = NoRet
          ELSE /\ stack' = Pop(stack)
               /\ ret' = FindRet(ret.kind, ret.fn, ret.site, Top.names, Top.args,
                                 tried, Top.at)
    /\ UNCHANGED <<loadVars, castVars, congealVars, lowerVars>>
    /\ UNCHANGED <<Functions, Package, Scope, scopeParent, RootPackageName,
                   Compiler, Variants, NameCache, declRuns, genRuns, first>>

InBody == stack # <<>> /\ Top.kind = "get" /\ ret.from = "none"
BodyOf(f) == Functions[f.name].Body

\* body Codegen reaches a call expression: FindFunction(searchNames, argTypes)
CodegenCall ==
    /\ InBody
    /\ Top.bi <= Len(BodyOf(Top))
    /\ ~BodyOf(Top)[Top.bi].direct
    /\ stack' = Append(stack, FindFrame(BodyOf(Top)[Top.bi].names,
                                        BodyOf(Top)[Top.bi].args, AtCall))
    /\ UNCHANGED <<loadVars, castVars, congealVars, lowerVars>>
    /\ UNCHANGED <<Functions, Package, Scope, scopeParent, RootPackageName,
                   Compiler, Variants, NameCache, ret, declRuns, genRuns, first>>

\* body Codegen reaches a runtime call: Program.NewRuntimeFunctionCall(name)
NewRuntimeFunctionCall ==
    /\ InBody
    /\ Top.bi <= Len(BodyOf(Top))
    /\ BodyOf(Top)[Top.bi].direct
    /\ LET name == BodyOf(Top)[Top.bi].names[1]
       IN \E argsOk \in Outcomes(name), declOk \in Outcomes(name) :
             GetFunctionEnter(name, NilArgs, stack, argsOk, declOk)

\* body Codegen gets the outcome of a call it made: an error ends Codegen,
\* and GetFunction returns that error at once
CodegenGot ==
    /\ stack # <<>> /\ Top.kind = "get" /\ ret.from # "none"
    /\ IF ret.kind = "err"
       THEN /\ stack' = Pop(stack)
            /\ ret' = GetRet("err", NoFn, "codegen", Top.name, Top.args, TRUE, TRUE,
                             Top.at)
       ELSE /\ stack' = SetTop(stack, [Top EXCEPT !.bi = @ + 1])
            /\ ret' = NoRet
    /\ scopeParent' = Collect(scopeParent, stack', Scope)
    /\ UNCHANGED <<loadVars, castVars, congealVars, lowerVars>>
    /\ UNCHANGED <<Functions, Package, Scope, RootPackageName, Compiler, Variants,
                   NameCache, declRuns, genRuns, first>>

\* GetFunction stores the lowered function under node.NameCache
StoreVariant(variants, name, key, gen) ==
    [variants EXCEPT ![name] = Put(@, key, gen)]

\* body Codegen is through: GetFunction stores the variant, restores the
\* saved state and returns
GetFunctionReturn ==
    /\ InBody
    /\ Top.bi > Len(BodyOf(Top))
    /\ LET name == Top.name
           stored == StoreVariant(Variants, name, NameCache[name], Top.gen)
           compiledVal == stored[name][NameCache[name]]
           r == GetRet("fn", compiledVal, "codegen", name, Top.args, TRUE, TRUE, Top.at)
       IN /\ Variants' = stored
          /\ Package' = Restore(Top).Package
          /\ Scope' = Restore(Top).Scope
          /\ Compiler' = Restore(Top).Compiler
          /\ ret' = r
          /\ first' \in FirstAfter(r)
    /\ stack' = Pop(stack)
    /\ scopeParent' = Collect(scopeParent, stack', Scope')
    /\ UNCHANGED <<loadVars, castVars, congealVars, lowerVars>>
    /\ UNCHANGED <<Functions, RootPackageName, NameCache, declRuns, genRuns>>

\* lowering the body's own statements fails: GetFunction returns the error
GetFunctionCodegenError ==
    /\ InBody
    /\ Top.bi > Len(BodyOf(Top))
    /\ FALSE \in Outcomes(Top.name)
    /\ ret' = GetRet("err", NoFn, "codegen", Top.name, Top.args, TRUE, TRUE, Top.at)
    /\ stack' = Pop(stack)
    /\ scopeParent' = Collect(scopeParent, stack', Scope)
    /\ UNCHANGED <<loadVars, castVars, congealVars, lowerVars>>
    /\ UNCHANGED <<Functions, Package, Scope, RootPackageName, Compiler, Variants,
                   NameCache, declRuns, genRuns, first>>

\* the top-level caller takes the returned value
CallerGot ==
    /\ stack = <<>> /\ ret.from # "none"
    /\ ret' = NoRet
    /\ UNCHANGED <<loadVars, castVars, congealVars, lowerVars>>
    /\ UNCHANGED <<Functions, Package, Scope, scopeParent, RootPackageName,
                   Compiler, Variants, NameCache, stack, declRuns, genRuns, first>>

NextFn ==
    \/ CallGetFunction
    \/ CallFindFunction
    \/ FindFunctionNext
    \/ FindFunctionFail
    \/ FindFunctionGot
    \/ CodegenCall
    \/ NewRuntimeFunctionCall
    \/ CodegenGot
    \/ GetFunctionReturn
    \/ GetFunctionCodegenError
    \/ CallerGot

Init == InitFn
Next == NextFn
Spec == Init /\ [][Next]_vars

\* the function compiler with the history of returned functions kept
InitRepeat == (\E registry \in Registries : NewProgram(registry)) /\ first = NoFirst /\ LoadAtRest /\ CastAtRest /\ CongealAtRest /\ LowerAtRest
SpecRepeat == InitRepeat /\ [][Next]_vars

(***************************************************************************)
(* Properties of the function compiler.  In the state that follows a       *)
(* return of GetFunction, ret holds the returned value, the call's name    *)
(* and argument types, and ret.at the program state at the time of the     *)
(* call.                                                                   *)
(***************************************************************************)
GetReturned == ret.from = "get"
Registered == ret.name \in DOMAIN Functions
RetNode == Functions[ret.name]

\* C1: when GetFunction returns a function for a registered name, the active
\* Package, the active Scope and the Compiler cursor are those of the time of
\* the call, at every nesting depth.
C1_RestoredOnSuccess ==
    (GetReturned /\ ret.kind = "fn") =>
        /\ Package = ret.at.Package
        /\ Scope = ret.at.Scope
        /\ Compiler = ret.at.Compiler

\* a nested GetFunction, called from the body of a function of another
\* package in a scope that is not the root, has lowered its body and returned
C1_Witness ==
    /\ GetReturned /\ ret.kind = "fn" /\ ret.site = "codegen"
    /\ Len(stack) >= 2
    /\ ret.at.Scope # RootScope
    /\ ret.at.Package \notin {"", RetNode.Package}
    /\ ret.at.Compiler # NoFn

\* C2: when GetFunction returns an error, the active Package and the active
\* Scope are those of the time of the call.
C2_RestoredOnError ==
    (GetReturned /\ ret.kind = "err") =>
        /\ Package = ret.at.Package
        /\ Scope = ret.at.Scope

NoUnknown(node) == \A i \in 1..Len(node.Args) : ~node.Args[i].Unknown
Compiled(n) == {k \in DOMAIN Variants[n] : Variants[n][k] # NoFn}

\* C5: between calls, a function none of whose parameters is unknown has at
\* most one function in its variant cache.
C5_OneVariant ==
    Idle => \A n \in DOMAIN Functions :
               NoUnknown(Functions[n]) => Cardinality(Compiled(n)) <= 1

\* C6: a call of GetFunction with a name and argument types that were used
\* before returns the function the earlier call returned, and Declare and
\* body Codegen run at most once per variant key.
C6_SameFunctionAgain ==
    /\ (GetReturned /\ ret.kind = "fn" /\ first.name = ret.name
          /\ first.args = ret.args) => ret.fn = first.fn
    /\ \A k \in DOMAIN declRuns : declRuns[k] <= 1
    /\ \A k \in DOMAIN genRuns : genRuns[k] <= 1

ArityAccepted(n, m, variadic) == n = m \/ (variadic /\ n >= m)

\* the arity check stands between Arguments and everything else
ArityVerdict(ok) ==
    /\ (ret.site # "arity") <=> ok
    /\ ~ok => (ret.kind = "err" /\ ~ret.declared)

\* C7 as stated: GetFunction with n argument types on a function of m
\* parameters passes the arity check exactly when n = m, or the function is
\* variadic and n >= m; otherwise it returns an arity error and declares
\* nothing.
C7_ArityAsStated ==
    (GetReturned /\ Registered /\ ret.site # "arguments") =>
        ArityVerdict(ArityAccepted(Len(ret.args.types), Len(RetNode.Args),
                                   RetNode.Variadic))

\* C7 amended: the above holds of the calls that supply an argument-type
\* list; a call that supplies none (a nil list) always passes the arity check.
C7_ArityWhenSupplied ==
    (GetReturned /\ Registered /\ ret.site # "arguments") =>
        IF ret.args.nil
        THEN ret.site # "arity"
        ELSE ArityVerdict(ArityAccepted(Len(ret.args.types), Len(RetNode.Args),
                                        RetNode.Variadic))

\* a variadic function of one parameter was called with an empty list and
\* the call returned the arity error
C7_Witness ==
    /\ GetReturned /\ Registered /\ ret.site = "arity" /\ ret.kind = "err"
    /\ RetNode.Variadic /\ Len(RetNode.Args) = 1
    /\ ~ret.args.nil /\ ret.args.types = <<>>

Mismatch(node, args) ==
    \E i \in 1..Len(node.Args) :
        /\ ~node.Args[i].Unknown
        /\ args.types[i] # node.Args[i].Type
        /\ ~(IsNumber(args.types[i]) /\ IsNumber(node.Args[i].Type))

\* C8: when a supplied argument type is neither equal nor loosely equal to
\* the declared type of a parameter that is not unknown, GetFunction returns
\* a type-mismatch error and declares nothing, variadic function or not.
C8_MismatchRejected ==
    (GetReturned /\ Registered /\ ~ret.args.nil
       /\ ret.site \notin {"arguments", "arity"}
       /\ Mismatch(RetNode, ret.args)) =>
        (ret.kind = "err" /\ ret.site = "type" /\ ~ret.declared)

RegisteredAt(names) == {i \in 1..Len(names) : names[i] \in DOMAIN Functions}
Least(S) == CHOOSE i \in S : \A j \in S : i <= j

\* C9: FindFunction goes through its candidates in order; a name that is not
\* registered is passed over with no error and no change of the active
\* Package, the active Scope or a variant cache; the result is the outcome
\* of GetFunction for the first registered candidate, no later candidate is
\* tried, and "unable to find function" means no candidate is registered.
C9_FirstRegisteredCandidate ==
    /\ (GetReturned /\ ~Registered) =>
          /\ ret.kind = "nil"
          /\ Package = ret.at.Package
          /\ Scope = ret.at.Scope
          /\ Variants = ret.at.Variants
    /\ ret.from = "find" =>
          /\ \A i \in 1..Len(ret.tried) : ret.tried[i].name = ret.names[i]
          /\ IF RegisteredAt(ret.names) = {}
             THEN /\ ret.kind = "err" /\ ret.site = "notfound"
                  /\ Len(ret.tried) = Len(ret.names)
             ELSE LET k == Least(RegisteredAt(ret.names))
                  IN /\ Len(ret.tried) = k
                     /\ ret.site # "notfound"
                     /\ ret.kind = ret.tried[k].kind
                     /\ ret.fn = ret.tried[k].fn

\* C22: after any GetFunction call completes, nested calls for another
\* variant of the same function included, every function in a variant cache
\* is stored under the key it was declared and lowered for.
C22_StoredUnderItsKey ==
    GetReturned =>
        \A n \in DOMAIN Functions : \A k \in Compiled(n) : Variants[n][k].key = k

\* C23: after GetFunction returns for a function owned by a package other
\* than the caller's, the package name of the root scope is the one it had
\* before the call.
C23_RootPackageNameKept ==
    (GetReturned /\ Registered /\ RetNode.Package # ret.at.Package) =>
        RootPackageName = ret.at.RootPackageName

(***************************************************************************)
(* The file and package loader.  A path is the sequence of its components; *)
(* the empty sequence is the root directory.                               *)
(***************************************************************************)
\* longest list of dependencies of a source file
MaxDeps == 1
\* number of calls the loader's caller makes
MaxCalls == 2

RECURSIVE CleanFrom(_, _)
CleanFrom(acc, rest) ==
    IF rest = <<>> THEN acc
    ELSE LET c == Head(rest)
             next == IF c = "." THEN acc
                     ELSE IF c = ".."
                          THEN SubSeq(acc, 1, IF acc = <<>> THEN 0 ELSE Len(acc) - 1)
                          ELSE Append(acc, c)
         IN CleanFrom(next, Tail(rest))

\* filepath.Clean of an absolute path (the path is evaluated once)
Clean(path) == CHOOSE c \in {CleanFrom(<<>>, p) : p \in {path}} : TRUE

\* filepath.Join
Join(a, b) == Clean(a \o b)

\* filepath.Dir
Dir(path) == IF path = <<>> THEN <<>> ELSE SubSeq(path, 1, Len(path) - 1)

\* filepath.Abs of an absolute path
Abs(path) == Clean(path)

\* the file names that end in ".g"
SourceNames == {"a.g", "b.g", "u.g"}
HasSuffixG(name) == name \in SourceNames

\* a namespace name is the sequence of its characters
LowerOrUnderscore == {"m", "u", "_"}
Namespaces == {<<"m">>, <<"u">>, <<"X">>, <<"m", "X">>}
\* the file declares no namespace
NoNamespace == <<>>

\* regexp "[a-z_]+" and MatchString: some character of the name is a
\* lowercase letter or an underscore
MatchString(name) == \E i \in 1..Len(name) : name[i] \in LowerOrUnderscore

\* a dependency of a source file: one path of a DependencyNode
Dep(path, c) == [Path |-> path, CLinkage |-> c]
DepItems == {Dep(<<"q">>, FALSE), Dep(<<"..">>, FALSE), Dep(<<".">>, FALSE),
             Dep(<<"c">>, TRUE)}

\* the directories and files of a project: /p with two source files and a
\* sub-directory /p/q with one
DiskDirs == {<<>>, <<"p">>, <<"p", "q">>}
DiskListing ==
    [d \in DiskDirs |->
        CASE d = <<>> -> <<"p">>
          [] d = <<"p">> -> <<"a.g", "notes.txt", "b.g", "q">>
          [] OTHER -> <<"u.g">>]
DiskFiles == {<<"p", "a.g">>, <<"p", "b.g">>, <<"p", "q", "u.g">>}
Contents == [Namespace : Namespaces \cup {NoNamespace},
             Deps : SeqsUpTo(DepItems, MaxDeps)]
Disks == {[Dirs |-> DiskDirs, Listing |-> DiskListing, Source |-> src] :
             src \in [DiskFiles -> Contents]}

\* the paths the loader's caller hands to ParsePath and to ParseFile
EntryPaths == {<<"p">>, <<"p", "a.g">>, <<"p", "q">>, <<"x", "y", "z">>}
EntryFiles == DiskFiles \cup {<<"p", "x.g">>}

\* PathIsDir
PathIsDir(pth) == pth \in Disk.Dirs

\* ReduceToDir
ReduceToDir(path) == IF ~PathIsDir(path) THEN Dir(path) ELSE path

\* SearchPaths(base)
packagedir == "geodepkgs"
RECURSIVE PackageDirs(_)
PackageDirs(base) ==
    IF base = <<>> THEN <<>>
    ELSE <<Join(base, <<packagedir>>)>> \o PackageDirs(Dir(base))
SearchPaths(base) ==
    <<base, <<"usr", "local", "lib", "geodelib">>>> \o PackageDirs(base)

\* ResolveDepPath(base, filename) for a filename without the std: prefix
\* (no source file of the projects on Disks names the standard library)
ResolveDepPath(base, filename) ==
    LET searchPaths == <<Join(base, filename)>> \o SearchPaths(base)
        hits == {i \in 1..Len(searchPaths) : PathIsDir(Join(searchPaths[i], filename))}
    IN IF hits = {} THEN Join(base, filename)
       ELSE Join(searchPaths[CHOOSE i \in hits : \A j \in hits : i <= j], filename)

\* Program.CanParse
CanParse(file) == \A i \in 1..Len(ParsedFiles) : ParsedFiles[i] # file

\* Program.ParseDir: the .g files of the directory that CanParse admits
RECURSIVE Admitted(_, _)
Admitted(path, list) ==
    IF list = <<>> THEN <<>>
    ELSE LET filename == Join(path, <<Head(list)>>)
         IN (IF HasSuffixG(Head(list)) /\ CanParse(filename)
             THEN <<filename>> ELSE <<>>) \o Admitted(path, Tail(list))
ParseDirFails(path) == path \notin Disk.Dirs
\* a ParseDir that hands back the first admitted file only
ParseDirFirst(path) ==
    LET files == Admitted(path, Disk.Listing[path])
    IN IF files = <<>> THEN <<>> ELSE <<Head(files)>>
ParseDir(path) == Admitted(path, Disk.Listing[path])

\* Parse: the nodes of a source file
NamespaceNode(path, name) ==
    [kind |-> "namespace", file |-> path, name |-> name, dep |-> Dep(<<>>, FALSE)]
DependencyNode(path, d) ==
    [kind |-> "dependency", file |-> path, name |-> <<>>, dep |-> d]
Parse(path, src) ==
    (IF src.Namespace = NoNamespace THEN <<>>
     ELSE <<NamespaceNode(path, src.Namespace)>>)
      \o [i \in 1..Len(src.Deps) |-> DependencyNode(path, src.Deps[i])]

\* NamespaceFromNodes: the name of the first namespace node, NoNamespace with
\* the error "nodes have no package name"
NamespaceFromNodes(nodes) ==
    LET at == {i \in 1..Len(nodes) : nodes[i].kind = "namespace"}
    IN IF at = {} THEN NoNamespace
       ELSE nodes[CHOOSE i \in at : \A j \in at : i <= j].name

\* FilterNodes(nodes, nodeDependency)
RECURSIVE FilterNodes(_)
FilterNodes(nodes) ==
    IF nodes = <<>> THEN <<>>
    ELSE (IF Head(nodes).kind = "dependency" THEN <<Head(nodes)>> ELSE <<>>)
           \o FilterNodes(Tail(nodes))

\* NewPackage(name, prog): the Package of that name, made on first encounter
Named(name) == {h \in 1..Len(pkgs) : pkgs[h].Name = name}
NewPackage(name) ==
    IF Named(name) = {} THEN Len(pkgs) + 1 ELSE CHOOSE h \in Named(name) : TRUE
EmptyPackage(name) ==
    [Name |-> name, Files |-> {}, Nodes |-> <<>>, DependencyPaths |-> <<>>]

PathFrame(dir, files) == [kind |-> "path", dir |-> dir, files |-> files, i |-> 1,
                          path |-> <<>>, pkg |-> 0, deps |-> <<>>]
TextFrame(path, pkg, deps) == [kind |-> "text", dir |-> <<>>, files |-> <<>>, i |-> 1,
                               path |-> path, pkg |-> pkg, deps |-> deps]
LoadTop == loadStack[Len(loadStack)]

\* log.Fatal: the process exits
Fatal == fatal' = TRUE /\ loadStack' = <<>>

\* Program.ParsePath(dir) up to the loop over the files; stk holds the
\* activations of the callers
ParsePath(dir, stk) ==
    LET reduced == IF ~PathIsDir(dir) THEN Dir(dir) ELSE dir
    IN \E absEntry \in {Abs(ReduceToDir(reduced))} :
          IF ParseDirFails(absEntry)
          THEN Fatal
          ELSE /\ loadStack' = Append(stk, PathFrame(absEntry, ParseDir(absEntry)))
               /\ UNCHANGED fatal

\* Program.ParseDep(base, path)
ParseDep(base, path, stk) ==
    \E depPath \in {ResolveDepPath(base, path)} :
       IF CanParse(depPath)
       THEN ParsePath(depPath, stk)
       ELSE loadStack' = stk /\ UNCHANGED fatal

\* Program.ParseFile(path) and Program.ParseText(code, path) up to the loop
\* over the dependency nodes
ParseFile(path, stk) ==
    IF path \notin DOMAIN Disk.Source
    THEN Fatal /\ UNCHANGED <<ParsedFiles, Packages, pkgs, logged>>
    ELSE LET src == Disk.Source[path]
             nodes == Parse(path, src)
             name == NamespaceFromNodes(nodes)
             h == NewPackage(name)
             made == IF h <= Len(pkgs) THEN pkgs ELSE Append(pkgs, EmptyPackage(name))
             newPkg == [made[h] EXCEPT !.Files = @ \cup {path}, !.Nodes = nodes]
         IN /\ ParsedFiles' = Append(ParsedFiles, path)
            /\ IF name = NoNamespace
               THEN Fatal /\ UNCHANGED <<Packages, pkgs, logged>>
               ELSE /\ logged' = IF MatchString(name) THEN logged
                                  ELSE Append(logged, name)
                    /\ pkgs' = [made EXCEPT ![h] = newPkg]
                    /\ Packages' = IF path \in DOMAIN Packages THEN Packages
                                    ELSE Put(Packages, path, h)
                    /\ loadStack' = Append(stk, TextFrame(path, h,
                                                          FilterNodes(newPkg.Nodes)))
                    /\ UNCHANGED fatal

LoadIdle == loadStack = <<>> /\ ~fatal
CanCall == LoadIdle /\ calls < MaxCalls

\* the caller of the loader calls ParsePath
CallParsePath ==
    /\ CanCall
    /\ \E dir \in EntryPaths : ParsePath(dir, <<>>)
    /\ calls' = calls + 1
    /\ UNCHANGED <<resolved, Disk, ParsedFiles, Packages, pkgs, CLinkages, logged>>
    /\ UNCHANGED <<fnVars, castVars, congealVars, lowerVars>>

\* the caller of the loader calls ParseFile, on a file that is not parsed yet
CallParseFile ==
    /\ CanCall
    /\ \E path \in EntryFiles : CanParse(path) /\ ParseFile(path, <<>>)
    /\ calls' = calls + 1
    /\ UNCHANGED <<resolved, Disk, CLinkages>>
    /\ UNCHANGED <<fnVars, castVars, congealVars, lowerVars>>

\* the caller of the loader calls ParseDep
CallParseDep ==
    /\ CanCall
    /\ \E d \in DepItems : ~d.CLinkage /\ ParseDep(<<"p">>, d.Path, <<>>)
    /\ calls' = calls + 1
    /\ UNCHANGED <<resolved, Disk, ParsedFiles, Packages, pkgs, CLinkages, logged>>
    /\ UNCHANGED <<fnVars, castVars, congealVars, lowerVars>>

InParsePath == ~fatal /\ loadStack # <<>> /\ LoadTop.kind = "path"
InParseText == ~fatal /\ loadStack # <<>> /\ LoadTop.kind = "text"
Advance == SetTop(loadStack, [LoadTop EXCEPT !.i = @ + 1])

\* ParsePath: the next turn of the loop over files calls ParseFile
ParsePathFile ==
    /\ InParsePath
    /\ LoadTop.i <= Len(LoadTop.files)
    /\ ParseFile(LoadTop.files[LoadTop.i], Advance)
    /\ UNCHANGED <<resolved, Disk, CLinkages, calls>>
    /\ UNCHANGED <<fnVars, castVars, congealVars, lowerVars>>

\* ParsePath: the loop is over
ParsePathReturn ==
    /\ InParsePath
    /\ LoadTop.i > Len(LoadTop.files)
    /\ loadStack' = Pop(loadStack)
    /\ UNCHANGED <<resolved, Disk, ParsedFiles, Packages, pkgs, CLinkages, logged, fatal, calls>>
    /\ UNCHANGED <<fnVars, castVars, congealVars, lowerVars>>

\* ParseText: the next dependency is a C linkage
ParseTextCLinkage ==
    /\ InParseText
    /\ LoadTop.i <= Len(LoadTop.deps)
    /\ LoadTop.deps[LoadTop.i].dep.CLinkage
    /\ CLinkages' = Append(CLinkages,
                           ResolveDepPath(Dir(LoadTop.path),
                                          LoadTop.deps[LoadTop.i].dep.Path))
    /\ loadStack' = Advance
    /\ UNCHANGED <<resolved, Disk, ParsedFiles, Packages, pkgs, logged, fatal, calls>>
    /\ UNCHANGED <<fnVars, castVars, congealVars, lowerVars>>

\* ParseText: the next dependency is a directory of source files
ParseTextDependency ==
    /\ InParseText
    /\ LoadTop.i <= Len(LoadTop.deps)
    /\ ~LoadTop.deps[LoadTop.i].dep.CLinkage
    /\ LET base == Dir(LoadTop.path)
           depPath == LoadTop.deps[LoadTop.i].dep.Path
       IN /\ pkgs' = [pkgs EXCEPT ![LoadTop.pkg].DependencyPaths =
                         Append(@, ReduceToDir(ResolveDepPath(base, depPath)))]
          /\ ParseDep(base, depPath, Advance)
    /\ UNCHANGED <<resolved, Disk, ParsedFiles, Packages, CLinkages, logged, calls>>
    /\ UNCHANGED <<fnVars, castVars, congealVars, lowerVars>>

\* ParseText: the loop over the dependency nodes is over
ParseTextReturn ==
    /\ InParseText
    /\ LoadTop.i > Len(LoadTop.deps)
    /\ loadStack' = Pop(loadStack)
    /\ UNCHANGED <<resolved, Disk, ParsedFiles, Packages, pkgs, CLinkages, logged, fatal, calls>>
    /\ UNCHANGED <<fnVars, castVars, congealVars, lowerVars>>

NextLoad ==
    \/ CallParsePath
    \/ CallParseFile
    \/ CallParseDep
    \/ ParsePathFile
    \/ ParsePathReturn
    \/ ParseTextCLinkage
    \/ ParseTextDependency
    \/ ParseTextReturn

\* the loader on a project on disk, before the functions are registered
InitLoad ==
    /\ NewProgram(<<>>) /\ first = Untracked /\ CastAtRest /\ CongealAtRest /\ LowerAtRest
    /\ Disk \in Disks
    /\ resolved = NoResolved
    /\ ParsedFiles = <<>>
    /\ Packages = <<>>
    /\ pkgs = <<>>
    /\ CLinkages = <<>>
    /\ logged = <<>>
    /\ loadStack = <<>>
    /\ fatal = FALSE
    /\ calls = 0
SpecLoad == InitLoad /\ [][NextLoad]_vars

(***************************************************************************)
(* Properties of the loader.                                               *)
(***************************************************************************)
Loaded == LoadIdle /\ calls > 0

\* C3: after any sequence of ParsePath, ParseDep and ParseFile calls, no path
\* is in the parsed-file list twice, dependency cycles included.
C3_ParsedOnce ==
    Loaded => \A i, j \in 1..Len(ParsedFiles) :
                 ParsedFiles[i] = ParsedFiles[j] => i = j

Parsed == {ParsedFiles[i] : i \in 1..Len(ParsedFiles)}
WellFormed(name) == name # <<>> /\ \A i \in 1..Len(name) : name[i] \in LowerOrUnderscore
Declaring(name) == {f \in Parsed : Disk.Source[f].Namespace = name}
Mapped(name) == {Packages[k] : k \in {x \in DOMAIN Packages : pkgs[Packages[x]].Name = name}}
NodesOf(h) == {pkgs[h].Nodes[i] : i \in 1..Len(pkgs[h].Nodes)}
NodesOfFile(f) ==
    LET nodes == Parse(f, Disk.Source[f]) IN {nodes[i] : i \in 1..Len(nodes)}

\* C4: after loading, the Package map holds exactly one Package for every
\* namespace a loaded file declares, and that Package holds the source file
\* and the nodes of every loaded file that declares the namespace.
C4_OnePackagePerNamespace ==
    Loaded => \A name \in Namespaces :
                 (WellFormed(name) /\ Declaring(name) # {}) =>
                     /\ Cardinality(Mapped(name)) = 1
                     /\ \A h \in Mapped(name), f \in Declaring(name) :
                           /\ f \in pkgs[h].Files
                           /\ NodesOfFile(f) \subseteq NodesOf(h)

\* C13: after any sequence of ParseText calls every Package of the Package
\* map has a name of lowercase letters and underscores only, and a file whose
\* declared namespace holds any other character adds no Package.
C13_NamespacesWellFormed ==
    /\ \A k \in DOMAIN Packages : WellFormed(pkgs[Packages[k]].Name)
    /\ \A f \in Parsed :
          ~WellFormed(Disk.Source[f].Namespace) => f \notin DOMAIN Packages

\* the loader as one thread of control: a step that can be taken is taken
LoadStep ==
    \/ ParsePathFile
    \/ ParsePathReturn
    \/ ParseTextCLinkage
    \/ ParseTextDependency
    \/ ParseTextReturn
\* the projects whose files declare the namespace m or none
EntryDisks ==
    {disk \in Disks : \A f \in DiskFiles :
        disk.Source[f].Namespace \in {<<"m">>, NoNamespace}}
InitLoadFair ==
    /\ NewProgram(<<>>) /\ first = Untracked /\ CastAtRest /\ CongealAtRest /\ LowerAtRest
    /\ Disk \in EntryDisks
    /\ resolved = NoResolved
    /\ ParsedFiles = <<>>
    /\ Packages = <<>>
    /\ pkgs = <<>>
    /\ CLinkages = <<>>
    /\ logged = <<>>
    /\ loadStack = <<>>
    /\ fatal = FALSE
    /\ calls = 0
SpecLoadFair == InitLoadFair /\ [][NextLoad]_vars /\ WF_vars(LoadStep)

\* the .g files of a directory, and the directories its files depend on
SourceFilesOf(d) ==
    {Join(d, <<Disk.Listing[d][i]>>) :
        i \in {x \in 1..Len(Disk.Listing[d]) : HasSuffixG(Disk.Listing[d][x])}}
DependencyDirs(d) ==
    {t \in Disk.Dirs :
        \E f \in SourceFilesOf(d) : \E i \in 1..Len(Disk.Source[f].Deps) :
            /\ ~Disk.Source[f].Deps[i].CLinkage
            /\ t = ResolveDepPath(d, Disk.Source[f].Deps[i].Path)}
RECURSIVE Reachable(_)
Reachable(S) ==
    LET T == S \cup UNION {DependencyDirs(d) : d \in S}
    IN IF T = S THEN S ELSE Reachable(T)

\* the outermost ParsePath is about to return
Returning ==
    /\ ~fatal
    /\ Len(loadStack) = 1
    /\ LoadTop.kind = "path"
    /\ LoadTop.i > Len(LoadTop.files)
Complete == \A d \in Reachable({LoadTop.dir}) : SourceFilesOf(d) \subseteq Parsed

MaxCasts == 2

OtherTypes == {"void", "{i32}"}
CastTypes == IntTypes \cup FloatTypes \cup PointerTypes \cup OtherTypes

\* a value.Value: a constant.Int, a constant.Float, another constant (a null
\* pointer, a struct) or a value that is no constant (a parameter, a load,
\* the result of a call); inst is the position of the instruction in the
\* current block that made it, 0 for a value that was handed in
Value(kind, typ) == [kind |-> kind, Typ |-> typ, inst |-> 0]
Values ==
    {Value("constant.Int", t) : t \in IntTypes}
      \cup {Value("constant.Float", t) : t \in FloatTypes}
      \cup {Value("constant", t) : t \in PointerTypes \cup {"{i32}"}}
      \cup {Value("value", t) : t \in CastTypes}

\* a size query that tells no two numeric types apart
typeSizeFlat(t) == IF IsNumber(t) THEN 0 ELSE -1

\* typeSize
typeSize(t) ==
    CASE t = "i1" -> 1
      [] t = "i8" -> 8
      [] t = "i16" -> 16
      [] t = "i32" -> 32
      [] t = "i64" -> 64
      [] t = "float" -> 1
      [] t = "double" -> 2
      [] OTHER -> -1

NoValue == [kind |-> "nil", Typ |-> "", inst |-> 0]

\* what createTypeCast returns, and the instructions it appended
Return(value, emitted) == [value |-> value, err |-> FALSE, emitted |-> emitted]
Failure == [value |-> NoValue, err |-> TRUE, emitted |-> <<>>]

\* prog.Compiler.CurrentBlock().New<op>(in, to)
NewInst(op, in, to) ==
    Return([kind |-> "value", Typ |-> to, inst |-> Len(block) + 1],
           <<[op |-> op, Typ |-> to]>>)

\* createTypeCast(prog, in, to), the later revision
createTypeCast(in, to) ==
    LET inType == in.Typ
        fromInt == IsInt(inType)
        fromFloat == IsFloat(inType)
        toInt == IsInt(to)
        toFloat == IsFloat(to)
        inSize == typeSize(inType)
        outSize == typeSize(to)
    IN IF in.kind = "constant.Int" /\ IsInt(to) THEN Return([in EXCEPT !.Typ = to], <<>>)
       ELSE IF in.kind = "constant.Float" /\ IsFloat(to)
            THEN Return([in EXCEPT !.Typ = to], <<>>)
       ELSE IF to = "void" THEN Return(NoValue, <<>>)
       ELSE IF IsPointer(inType) /\ IsPointer(to) THEN NewInst("bitcast", in, to)
       ELSE IF fromFloat /\ toInt THEN NewInst("fptosi", in, to)
       ELSE IF fromInt /\ toFloat THEN NewInst("sitofp", in, to)
       ELSE IF fromInt /\ toInt
            THEN IF inSize < outSize THEN NewInst("sext", in, to)
                 ELSE IF inSize = outSize THEN Return(in, <<>>)
                 ELSE NewInst("trunc", in, to)
       ELSE IF fromFloat /\ toFloat
            THEN IF inSize < outSize THEN NewInst("fpext", in, to)
                 ELSE IF inSize = outSize THEN Return(in, <<>>)
                 ELSE NewInst("fptrunc", in, to)
       ELSE IF inType = to THEN Return(in, <<>>)
       ELSE IF IsPointer(inType) /\ IsInt(to) THEN NewInst("ptrtoint", in, to)
       ELSE IF IsInt(inType) /\ IsPointer(to) THEN NewInst("inttoptr", in, to)
       ELSE Failure

\* createTypeCast(prog, in, to), the earlier revision
createTypeCastEarlier(in, to) ==
    IF in.Typ = to THEN Return(in, <<>>) ELSE createTypeCast(in, to)

CastCall(revision, in, to, out) ==
    [called |-> TRUE, n |-> cast.n + 1, revision |-> revision, in |-> in,
     to |-> to, out |-> out, before |-> block]

\* a lowering routine calls createTypeCast, the later revision
CallCreateTypeCast ==
    /\ cast.n < MaxCasts
    /\ \E in \in Values, to \in CastTypes :
          LET out == createTypeCast(in, to)
          IN /\ block' = block \o out.emitted
             /\ cast' = CastCall("later", in, to, out)
    /\ UNCHANGED <<fnVars, loadVars, congealVars, lowerVars>>

\* a lowering routine calls createTypeCast, the earlier revision
CallCreateTypeCastEarlier ==
    /\ cast.n < MaxCasts
    /\ \E in \in Values, to \in CastTypes :
          LET out == createTypeCastEarlier(in, to)
          IN /\ block' = block \o out.emitted
             /\ cast' = CastCall("earlier", in, to, out)
    /\ UNCHANGED <<fnVars, loadVars, congealVars, lowerVars>>

NextCast ==
    \/ CallCreateTypeCast
    \/ CallCreateTypeCastEarlier

InitCast == NewProgram(<<>>) /\ first = Untracked /\ LoadAtRest /\ CastAtRest /\ CongealAtRest /\ LowerAtRest
SpecCast == InitCast /\ [][NextCast]_vars

(***************************************************************************)
(* Properties of the cast engine.                                          *)
(***************************************************************************)
\* C10: createTypeCast(v, T) with the type of v equal to T returns v itself
\* and appends no instruction to the block, whatever the kind of T and
\* whether v is a constant or not.
C10_EqualTypesNoCast ==
    (cast.called /\ cast.in.Typ = cast.to) =>
        /\ ~cast.out.err
        /\ cast.out.value = cast.in
        /\ block = cast.before

\* what a call of createTypeCast did: the instruction it appended, or how it
\* came to its value without one
Outcome(c) ==
    IF c.out.err THEN "error"
    ELSE IF c.out.emitted # <<>> THEN c.out.emitted[1].op
    ELSE IF c.out.value = NoValue THEN "null"
    ELSE IF c.out.value = c.in THEN "same"
    ELSE IF c.out.value = [c.in EXCEPT !.Typ = c.to] THEN "retyped"
    ELSE "other"

\* the block holds what it held and the one instruction of the outcome, whose
\* result has the target type and is the value returned
WellEmitted(c) ==
    /\ Len(c.out.emitted) <= 1
    /\ block = c.before \o c.out.emitted
    /\ c.out.emitted # <<>> =>
          /\ c.out.emitted[1].Typ = c.to
          /\ c.out.value = [kind |-> "value", Typ |-> c.to, inst |-> Len(block)]

\* the width of a numeric type in bits
Bits(t) ==
    CASE t = "i1" -> 1 [] t = "i8" -> 8 [] t = "i16" -> 16 [] t = "i32" -> 32
      [] t = "i64" -> 64 [] t = "float" -> 32 [] t = "double" -> 64
      [] OTHER -> 0

\* the rules of the cast from the second on, in their order of priority
RuleAfterEquality(in, to) ==
    CASE in.kind = "constant.Int" /\ IsInt(to) -> "retyped"
      [] in.kind = "constant.Float" /\ IsFloat(to) -> "retyped"
      [] to = "void" -> "null"
      [] IsPointer(in.Typ) /\ IsPointer(to) -> "bitcast"
      [] IsFloat(in.Typ) /\ IsInt(to) -> "fptosi"
      [] IsInt(in.Typ) /\ IsFloat(to) -> "sitofp"
      [] IsInt(in.Typ) /\ IsInt(to) ->
            IF Bits(in.Typ) < Bits(to) THEN "sext"
            ELSE IF Bits(in.Typ) > Bits(to) THEN "trunc" ELSE "same"
      [] IsFloat(in.Typ) /\ IsFloat(to) ->
            IF Bits(in.Typ) < Bits(to) THEN "fpext"
            ELSE IF Bits(in.Typ) > Bits(to) THEN "fptrunc" ELSE "same"
      [] IsPointer(in.Typ) /\ IsInt(to) -> "ptrtoint"
      [] IsInt(in.Typ) /\ IsPointer(to) -> "inttoptr"
      [] OTHER -> "error"

\* a constant retyped to its own type is the value itself
AsOutcome(rule, in, to) == IF rule = "retyped" /\ in.Typ = to THEN "same" ELSE rule

\* C11 as stated: every call of createTypeCast (earlier revision) gives the
\* result of the first applicable rule of the list that starts with the
\* retyping of constants and ends with the error, with no rule for equal
\* types before them.
C11_FirstRuleAsStated ==
    (cast.called /\ cast.revision = "earlier") =>
        /\ Outcome(cast) = AsOutcome(RuleAfterEquality(cast.in, cast.to), cast.in, cast.to)
        /\ WellEmitted(cast)

\* C11 amended: equal types give the value itself with no instruction, before
\* every other rule; for different types the call gives the result of the
\* first applicable rule of the list.
C11_FirstRuleAfterEquality ==
    (cast.called /\ cast.revision = "earlier") =>
        /\ Outcome(cast) = IF cast.in.Typ = cast.to THEN "same"
                           ELSE RuleAfterEquality(cast.in, cast.to)
        /\ WellEmitted(cast)

\* the earlier revision was called on a value that is no constant, of an
\* integer type narrower than the integer target, and appended a sext
C11_Witness ==
    /\ cast.called /\ cast.revision = "earlier"
    /\ cast.in.kind = "value" /\ cast.in.Typ = "i8" /\ cast.to = "i64"
    /\ Outcome(cast) = "sext"
    /\ block # cast.before

(***************************************************************************)
(* The path resolver on its own: ResolveDepPath applied to a base          *)
(* directory and a specifier, on disks that have or lack each of the       *)
(* directories the search looks at.                                        *)
(***************************************************************************)
SystemDir == <<"usr", "local", "lib", "geodelib">>
ResolveBases == {<<"p">>, <<"p", "sub">>}
ResolveNames == {<<"q">>, <<"r">>}
SearchedDirs ==
    {<<"p", "q">>, <<"p", "q", "q">>, <<"p", "geodepkgs", "q">>,
     <<"p", "sub", "q">>, <<"p", "sub", "geodepkgs", "q">>,
     SystemDir \o <<"q">>, <<"geodepkgs", "q">>}
ResolveDisks ==
    {[Dirs |-> {<<>>, <<"p">>, <<"p", "sub">>} \cup ds,
      Listing |-> <<>>, Source |-> <<>>] : ds \in SUBSET SearchedDirs}

\* a call of p.ResolveDepPath(base, filename)
CallResolveDepPath ==
    /\ \E base \in ResolveBases, filename \in ResolveNames :
          resolved' = [called |-> TRUE, base |-> base, filename |-> filename,
                       path |-> ResolveDepPath(base, filename)]
    /\ UNCHANGED <<Disk, ParsedFiles, Packages, pkgs, CLinkages, logged,
                   loadStack, fatal, calls>>
    /\ UNCHANGED <<fnVars, castVars, congealVars, lowerVars>>

NextResolve ==
    \/ CallResolveDepPath
InitResolve ==
    /\ NewProgram(<<>>) /\ first = Untracked /\ CastAtRest /\ CongealAtRest /\ LowerAtRest
    /\ Disk \in ResolveDisks
    /\ resolved = NoResolved
    /\ ParsedFiles = <<>>
    /\ Packages = <<>>
    /\ pkgs = <<>>
    /\ CLinkages = <<>>
    /\ logged = <<>>
    /\ loadStack = <<>>
    /\ fatal = FALSE
    /\ calls = 0
SpecResolve == InitResolve /\ [][NextResolve]_vars

\* the order the claim states: b/s, b/geodepkgs/s, the system directory, b/s
StatedResolution(b, s) ==
    LET local   == Join(b, s)
        vendored == Join(Join(b, <<packagedir>>), s)
        system  == Join(SystemDir, s)
    IN IF PathIsDir(local) THEN local
       ELSE IF PathIsDir(vendored) THEN vendored
       ELSE IF PathIsDir(system) THEN system
       ELSE local

\* C12: ResolveDepPath(b, s) returns b/s when b/s is a directory, otherwise
\* b/geodepkgs/s when that is a directory, otherwise /usr/local/lib/geodelib/s
\* when that is a directory, otherwise b/s; so with b/geodepkgs/s and the
\* system directory's s both present and b/s absent, it returns b/geodepkgs/s.
C12_ResolvedAsStated ==
    resolved.called =>
        resolved.path = StatedResolution(resolved.base, resolved.filename)

(***************************************************************************)
(* The driver: Program.Congeal on the packages the loader left behind.     *)
(* Here a package name is the string that goes into the registry keys.     *)
(***************************************************************************)
\* the number of nodes of a package
MaxNodes == 2

nodeFunction == "nodeFunction"
nodeClass == "nodeClass"
nodeGlobalDecl == "nodeGlobalDecl"

\* a FunctionNode, a ClassNode or a GlobalVariableDeclNode of a source file
Node(kind, name) == [Kind |-> kind, Name |-> name, Package |-> ""]
NodePool == {Node(nodeFunction, "main"), Node(nodeFunction, "f"),
             Node(nodeClass, "C"), Node(nodeGlobalDecl, "g")}
PackageNames == {"m", "lib", "runtime"}
PackageKeys == <<<<"p", "a.g">>, <<"p", "q", "u.g">>>>

\* the keys of the registries
FunctionKey(pkg, fn) ==
    IF fn.Name = "main" \/ pkg.Name = "runtime" THEN fn.Name
    ELSE pkg.Name \o ":" \o fn.Name
ClassKey(pkg, cls) ==
    IF pkg.Name = "runtime" THEN cls.Name ELSE pkg.Name \o ":" \o cls.Name

\* the inner loop of the registration step over the nodes of one package:
\* the function registry, the class registry and the packaged nodes after it
RECURSIVE RegisterFunctions(_, _, _)
RegisterFunctions(registry, pkg, list) ==
    IF list = <<>> THEN registry
    ELSE LET fn == Head(list)
             next == IF fn.Kind = nodeFunction
                     THEN Put(registry, FunctionKey(pkg, fn),
                              [fn EXCEPT !.Package = pkg.Name])
                     ELSE registry
         IN RegisterFunctions(next, pkg, Tail(list))
RECURSIVE RegisterClasses(_, _, _)
RegisterClasses(registry, pkg, list) ==
    IF list = <<>> THEN registry
    ELSE LET cls == Head(list)
             next == IF cls.Kind = nodeClass
                     THEN Put(registry, ClassKey(pkg, cls),
                              [cls EXCEPT !.Package = pkg.Name])
                     ELSE registry
         IN RegisterClasses(next, pkg, Tail(list))
\* PackageNode(node, pkg, prog): a pointer to a new PackagedNode; at is its
\* place in Congeal's list
PackageNode(node, pkg, at) == [Pkg |-> pkg, Node |-> node, at |-> at]
PackageNodes(list, h, have) ==
    [i \in 1..Len(list) |-> PackageNode(list[i], h, have + i)]

\* a filter that lets only the first node of the kind through
FilterPackagedNodesFirst(list, t) ==
    LET all == SelectSeq(list, LAMBDA n : n.Node.Kind = t)
    IN IF all = <<>> THEN <<>> ELSE <<Head(all)>>
FilterPackagedNodes(list, t) == SelectSeq(list, LAMBDA n : n.Node.Kind = t)

\* PackagedNode.SetupContext; Congeal runs with the root scope active
SetupContext(pn) ==
    /\ Package' = pkgs[pn.Pkg].Name
    /\ RootPackageName' = pkgs[pn.Pkg].Name

\* util.EatError(err): the error is reported and the run goes on
EatError(err) == TRUE

\* where Congeal stands when it is about to run round i of loop pc: in that
\* loop, or at the first round of the next loop that has one, or at the
\* final return
At(pc, i) == [pc |-> pc, todo |-> {}, i |-> i]
LoopAt(pc, i, list) ==
    LET classes == Len(FilterPackagedNodes(list, nodeClass))
        globals == Len(FilterPackagedNodes(list, nodeGlobalDecl))
    IN IF pc = "declare" /\ i <= classes THEN At("declare", i)
       ELSE IF pc = "declare" /\ 1 <= classes THEN At("verify", 1)
       ELSE IF pc = "verify" /\ i <= classes THEN At("verify", i)
       ELSE IF pc \in {"declare", "verify"} /\ 1 <= globals THEN At("globals", 1)
       ELSE IF pc = "globals" /\ i <= globals THEN At("globals", i)
       ELSE At("return", 1)

\* the node of round congeal.i of a loop over the nodes of kind t
Current(t) == FilterPackagedNodes(packagedNodes, t)[congeal.i]

\* a return that drops the error and hands out the module
ReturnNoError ==
    /\ congealed' = [returned |-> TRUE, Module |-> "module", err |-> FALSE]
    /\ congeal' = At("done", 1)
\* return nil, err
ReturnError ==
    /\ congealed' = [returned |-> TRUE, Module |-> "nil", err |-> TRUE]
    /\ congeal' = At("done", 1)
Goto(pc, i) ==
    /\ congeal' = LoopAt(pc, i, packagedNodes)
    /\ UNCHANGED congealed
Called(op, pn, err) ==
    events' = Append(events, [op |-> op, node |-> pn.at, err |-> err])

congealKeeps == <<Scope, scopeParent, stack, ret, declRuns, genRuns, first,
                  loadVars, castVars, lowerVars>>

\* Congeal up to the loop over the packages
CallCongeal ==
    /\ congeal.pc = "idle"
    /\ Functions' = <<>>
    /\ Classes' = <<>>
    /\ Compiler' = NoFn
    /\ Variants' = <<>>
    /\ NameCache' = <<>>
    /\ packagedNodes' = <<>>
    /\ congeal' = [pc |-> "packages", todo |-> DOMAIN Packages, i |-> 1]
    /\ UNCHANGED <<Package, RootPackageName, events, congealed, congealKeeps>>

\* one round of the loop over the Package map, which Go ranges over in an
\* order of its own choosing
CongealPackage ==
    /\ congeal.pc = "packages"
    /\ \E k \in congeal.todo :
          LET h == Packages[k]
              pkg == pkgs[h]
              list == packagedNodes \o PackageNodes(pkg.Nodes, h, Len(packagedNodes))
          IN /\ Functions' = RegisterFunctions(Functions, pkg, pkg.Nodes)
             /\ Classes' = RegisterClasses(Classes, pkg, pkg.Nodes)
             /\ Variants' = [n \in DOMAIN Functions' |-> <<>>]
             /\ NameCache' = [n \in DOMAIN Functions' |-> PlainName([Name |-> ""])]
             /\ packagedNodes' = list
             /\ congeal' = IF congeal.todo = {k} THEN LoopAt("declare", 1, list)
                           ELSE [congeal EXCEPT !.todo = @ \ {k}]
    /\ UNCHANGED <<Compiler, Package, RootPackageName, events, congealed, congealKeeps>>

\* one round of the loop that declares the classes
ClassDeclare ==
    /\ congeal.pc = "declare"
    /\ \E err \in BOOLEAN :
          /\ SetupContext(Current(nodeClass))
          /\ Called("Declare", Current(nodeClass), err)
          /\ IF err THEN ReturnError ELSE Goto("declare", congeal.i + 1)
    /\ UNCHANGED <<Functions, Classes, Compiler, Variants, NameCache,
                   packagedNodes, congealKeeps>>

\* one round of the loop that lowers the classes, up to util.EatError
ClassVerifyCorrectness ==
    /\ congeal.pc = "verify"
    /\ \E err \in BOOLEAN :
          /\ SetupContext(Current(nodeClass))
          /\ Called("VerifyCorrectness", Current(nodeClass), err)
          /\ IF EatError(err)
             THEN congeal' = At("codegen", congeal.i) /\ UNCHANGED congealed
             ELSE ReturnError
    /\ UNCHANGED <<Functions, Classes, Compiler, Variants, NameCache,
                   packagedNodes, congealKeeps>>

\* the rest of the round: Codegen of the class
ClassCodegen ==
    /\ congeal.pc = "codegen"
    /\ \E err \in BOOLEAN :
          /\ Called("Codegen", Current(nodeClass), err)
          /\ IF err THEN ReturnError ELSE Goto("verify", congeal.i + 1)
    /\ UNCHANGED <<Functions, Classes, Compiler, Variants, NameCache,
                   packagedNodes, Package, RootPackageName, congealKeeps>>

\* one round of the loop that declares the global variables
GlobalDeclare ==
    /\ congeal.pc = "globals"
    /\ \E err \in BOOLEAN :
          /\ SetupContext(Current(nodeGlobalDecl))
          /\ Called("GlobalDeclare", Current(nodeGlobalDecl), err)
          /\ IF err THEN ReturnError ELSE Goto("globals", congeal.i + 1)
    /\ UNCHANGED <<Functions, Classes, Compiler, Variants, NameCache,
                   packagedNodes, congealKeeps>>

\* return p.Module, nil
CongealReturn ==
    /\ congeal.pc = "return"
    /\ congealed' = [returned |-> TRUE, Module |-> "module", err |-> FALSE]
    /\ congeal' = At("done", 1)
    /\ UNCHANGED <<Functions, Classes, Compiler, Variants, NameCache,
                   packagedNodes, Package, RootPackageName, events, congealKeeps>>

NextCongeal ==
    \/ CallCongeal
    \/ CongealPackage
    \/ ClassDeclare
    \/ ClassVerifyCorrectness
    \/ ClassCodegen
    \/ GlobalDeclare
    \/ CongealReturn

\* two packages of different names, as the loader stores them
InitCongeal ==
    /\ NewProgram(<<>>) /\ first = Untracked /\ CastAtRest /\ CongealAtRest /\ LowerAtRest
    /\ Disk = NoDisk
    /\ resolved = NoResolved
    /\ ParsedFiles = PackageKeys
    /\ Packages = [i \in {PackageKeys[1], PackageKeys[2]} |->
                      IF i = PackageKeys[1] THEN 1 ELSE 2]
    /\ \E names \in [1..2 -> PackageNames] :
          /\ names[1] # names[2]
          /\ \E lists \in [1..2 -> SeqsUpTo(NodePool, MaxNodes)] :
                pkgs = [h \in 1..2 |->
                          [EmptyPackage(names[h]) EXCEPT
                              !.Files = {PackageKeys[h]}, !.Nodes = lists[h]]]
    /\ CLinkages = <<>>
    /\ logged = <<>>
    /\ loadStack = <<>>
    /\ fatal = FALSE
    /\ calls = 0
SpecCongeal == InitCongeal /\ [][NextCongeal]_vars

ClassesAt ==
    {i \in 1..Len(packagedNodes) : packagedNodes[i].Node.Kind = nodeClass}
Begun(ops) == \E j \in 1..Len(events) : events[j].op \in ops
Succeeded(op) ==
    {events[j].node : j \in {x \in 1..Len(events) :
                                events[x].op = op /\ ~events[x].err}}

\* C14: in Congeal, for any number of classes in any packages, every class is
\* declared before the verification or the lowering of any class begins, and
\* every class is lowered before any global variable is declared.
C14_DeclaredThenLoweredThenGlobals ==
    /\ Begun({"VerifyCorrectness", "Codegen", "GlobalDeclare"})
          => ClassesAt \subseteq Succeeded("Declare")
    /\ Begun({"GlobalDeclare"}) => ClassesAt \subseteq Succeeded("Codegen")
    /\ congealed.returned /\ ~congealed.err
          => ClassesAt \subseteq Succeeded("Declare") \cap Succeeded("Codegen")
C14_Witness ==
    /\ Begun({"GlobalDeclare"})
    /\ \E i, j \in ClassesAt : packagedNodes[i].Pkg # packagedNodes[j].Pkg

Aborting == {"Declare", "Codegen", "GlobalDeclare"}
Attempted(op) == {events[j].node : j \in {x \in 1..Len(events) : events[x].op = op}}
ReturnedError == [returned |-> TRUE, Module |-> "nil", err |-> TRUE]

\* C15: in Congeal an error of a class Declare, a class Codegen or a global
\* Declare ends the run at once with the error and without a module, and no
\* later node is processed; an error of a class's correctness verification
\* does not: the class is still lowered, and the later classes are still
\* verified and lowered.
C15_ErrorsEndTheRun ==
    /\ \A j \in 1..Len(events) :
          /\ (events[j].err /\ events[j].op \in Aborting)
                => j = Len(events) /\ congealed = ReturnedError
          /\ (events[j].err /\ events[j].op = "VerifyCorrectness")
                => IF j = Len(events)
                   THEN ~congealed.returned /\ congeal.pc = "codegen"
                   ELSE /\ events[j + 1].op = "Codegen"
                        /\ events[j + 1].node = events[j].node
    /\ congealed.returned =>
          IF congealed.err
          THEN /\ congealed.Module = "nil"
               /\ events # <<>>
               /\ events[Len(events)].err
               /\ events[Len(events)].op \in Aborting
          ELSE /\ congealed.Module = "module"
               /\ ClassesAt \subseteq Attempted("VerifyCorrectness")
               /\ ClassesAt \subseteq Succeeded("Codegen")
C15_Witness ==
    /\ congealed.returned /\ ~congealed.err
    /\ \E j, k \in 1..Len(events) :
          /\ j < k
          /\ events[j].op = "VerifyCorrectness" /\ events[j].err
          /\ events[k].op = "Codegen" /\ events[k].node # events[j].node

RegistrationDone == congeal.pc \notin {"idle", "packages"}
\* the key the registry is to hold a function under
StatedKey(P, N) == IF P = "runtime" \/ N = "main" THEN N ELSE P \o ":" \o N

\* C16: after the registration step of Congeal, for every function named N
\* of a package P the function registry holds, under "P:N" (under N when P is
\* runtime or N is main), an entry whose node has the name N and the owning
\* package P, whatever the packages are.
C16_RegisteredUnderItsKey ==
    RegistrationDone =>
        \A h \in 1..Len(pkgs) : \A i \in 1..Len(pkgs[h].Nodes) :
            LET P == pkgs[h].Name
                N == pkgs[h].Nodes[i].Name
            IN pkgs[h].Nodes[i].Kind = nodeFunction =>
                  /\ StatedKey(P, N) \in DOMAIN Functions
                  /\ Functions[StatedKey(P, N)].Name = N
                  /\ Functions[StatedKey(P, N)].Package = P

(***************************************************************************)
(* The lowering of the control-flow nodes (the later revision of the       *)
(* source; the earlier one has the same IfNode and WhileNode, with the     *)
(* block method BranchIfNoTerminator in place of branchIfNoTerminator).    *)
(* A Codegen is an operator from the compiler's state to its state, the    *)
(* value it returns and its error.                                         *)
(***************************************************************************)
\* the number of statements of a body
MaxStmts == 2

\* the nodes: an expression that lowers to one instruction with a result of
\* the type, an expression and a statement whose lowering fails, a statement
\* that lowers to one instruction, a return without a value
ExprNode(typ) == [kind |-> "expr", Typ |-> typ]
BadExprNode == [kind |-> "badexpr"]
StmtNode == [kind |-> "stmt"]
BadStmtNode == [kind |-> "badstmt"]
ReturnNode == [kind |-> "return"]
Nil == [kind |-> "nil"]
BlockNode(list) == [kind |-> "block", Nodes |-> list]
IfNode(if, then, else) == [kind |-> "if", If |-> if, Then |-> then, Else |-> else]
WhileNode(if, body) == [kind |-> "while", If |-> if, Body |-> body]
ForNode(init, cond, step, body) ==
    [kind |-> "for", Init |-> init, Cond |-> cond, Step |-> step, Body |-> body]

Leaves == {StmtNode, ReturnNode, BadStmtNode}
Predicates == {ExprNode("i1"), ExprNode("i32"), ExprNode("{i32}"), BadExprNode}
InnerNodes ==
    {IfNode(ExprNode("i32"), BlockNode(<<ReturnNode>>), Nil),
     IfNode(ExprNode("i32"), BlockNode(<<>>), BlockNode(<<StmtNode>>))}
      \cup {WhileNode(ExprNode("i32"), BlockNode(<<StmtNode>>)),
            ForNode(StmtNode, ExprNode("i1"), StmtNode, BlockNode(<<StmtNode>>))}
Bodies == {BlockNode(list) : list \in SeqsUpTo(Leaves \cup InnerNodes, MaxStmts)}
ElseBodies ==
    {Nil, BlockNode(<<>>)} \cup {BlockNode(<<n>>) : n \in Leaves \cup InnerNodes}
IfNodes == {IfNode(p, t, e) : p \in Predicates, t \in Bodies, e \in ElseBodies}
WhileNodes == {WhileNode(p, b) : p \in Predicates, b \in Bodies}
ForNodes ==
    {ForNode(i, c, st, b) : i \in {StmtNode, BadStmtNode}, c \in Predicates,
                            st \in {StmtNode, BadStmtNode}, b \in Bodies}

\* ir.BasicBlock: its instructions and its terminator slot
NoTerm == [op |-> "none", to |-> <<>>]
BasicBlock(name) == [Name |-> name, Insts |-> <<>>, Term |-> NoTerm]
\* the state: the blocks of the function (a block is its place in Blocks, 0 is
\* nil), the block stack of the compiler, nameNumber, the active scope and the
\* parents of the scopes, and the history of the If and While lowerings
Entry(scope) ==
    [Blocks |-> <<BasicBlock(<<"entry", 0>>)>>, cursor |-> <<1>>, nameNumber |-> 0,
     Scope |-> scope, scopeParent |-> [s \in 1..scope |-> s - 1], log |-> <<>>]

\* parentFunc.NewBlock(name) and parentFunc.NewBlock(mangleName(name))
NewBlock(st, name) == [st EXCEPT !.Blocks = Append(@, BasicBlock(<<name, 0>>))]
mangleName(st, name) ==
    [st EXCEPT !.nameNumber = @ + 1,
               !.Blocks = Append(@, BasicBlock(<<name, st.nameNumber + 1>>))]
LastBlock(st) == Len(st.Blocks)

\* the compiler's block stack
CurrentBlock(st) == IF st.cursor = <<>> THEN 0 ELSE st.cursor[Len(st.cursor)]
PushBlock(st, blk) == [st EXCEPT !.cursor = Append(@, blk)]
PopBlock(st) == [st EXCEPT !.cursor = SubSeq(@, 1, Len(@) - 1)]

\* blk.New<op>: an instruction appended to the block
Emit(st, blk, inst) == [st EXCEPT !.Blocks[blk].Insts = Append(@, inst)]
RECURSIVE EmitAll(_, _, _)
EmitAll(st, blk, insts) ==
    IF insts = <<>> THEN st ELSE EmitAll(Emit(st, blk, Head(insts)), blk, Tail(insts))
\* blk.NewBr, blk.NewCondBr, blk.NewRet: the terminator slot is assigned
NewBr(st, blk, to) == [st EXCEPT !.Blocks[blk].Term = [op |-> "br", to |-> <<to>>]]
NewCondBr(st, blk, then, else) ==
    [st EXCEPT !.Blocks[blk].Term = [op |-> "condbr", to |-> <<then, else>>]]
NewRet(st, blk) == [st EXCEPT !.Blocks[blk].Term = [op |-> "ret", to |-> <<>>]]

\* a helper that branches whatever the terminator slot holds
branchAlways(st, blk, to) == NewBr(st, blk, to)
branchIfNoTerminator(st, blk, to) ==
    IF st.Blocks[blk].Term = NoTerm THEN NewBr(st, blk, to) ELSE st

\* prog.Scope = prog.Scope.SpawnChild() and prog.Scope = prog.Scope.Parent
ScopeSpawnChild(st) ==
    [st EXCEPT !.scopeParent = Append(@, st.Scope), !.Scope = Len(st.scopeParent) + 1]
ScopeParent(st) == [st EXCEPT !.Scope = st.scopeParent[st.Scope]]

\* what a Codegen hands back: the state, the value, and nil, an error or a
\* panic of the Go runtime
Res(st, val, err) == [st |-> st, val |-> val, err |-> err]
Terms(st) == [b \in 1..Len(st.Blocks) |-> st.Blocks[b].Term]
Logged(st, entry) == [st EXCEPT !.log = Append(@, entry)]

\* createTypeCast(prog, v, to) with its instructions in the current block
TypeCast(st, v, to) ==
    LET c == createTypeCast(v, to)
    IN IF c.err THEN Res(st, 0, "error")
       ELSE Res(EmitAll(st, CurrentBlock(st), c.emitted),
                IF c.emitted = <<>> THEN c.value ELSE Value("value", to), "nil")
ICmp == [op |-> "icmp", Typ |-> "i1"]

RECURSIVE Codegen(_, _)
RECURSIVE BlockNodeCodegen(_, _)
RECURSIVE IfNodeCodegen(_, _)
RECURSIVE WhileNodeCodegen(_, _)
RECURSIVE ForNodeCodegen(_, _)
RECURSIVE IfNodeBlocks(_, _, _)
RECURSIVE WhileNodeBlocks(_, _, _, _, _)
RECURSIVE ForNodeBlocks(_, _, _, _, _)

\* BlockNode.Codegen: the statements in order up to the first error; the
\* value is the block the emission ended in
BlockNodeCodegen(list, st) ==
    IF list = <<>> THEN Res(st, CurrentBlock(st), "nil")
    ELSE LET r == Codegen(Head(list), st)
         IN IF r.err # "nil" THEN Res(r.st, 0, r.err)
            ELSE BlockNodeCodegen(Tail(list), r.st)

\* IfNode.Codegen: the predicate and its cast
IfNodeCodegen(n, st) ==
    LET p == Codegen(n.If, st)
    IN IfNodeBlocks(n, p, TypeCast(p.st, p.val, "i32"))

\* IfNode.Codegen from the comparison on: p is the lowering of the predicate,
\* c the cast of its value
IfNodeBlocks(n, p, c) ==
    LET parentBlock == CurrentBlock(p.st)
        s1 == mangleName(Emit(c.st, parentBlock, ICmp), "if.then")
        thenBlk == LastBlock(s1)
        t == Codegen(n.Then, PushBlock(s1, thenBlk))
        thenGenBlk == IF t.err = "nil" THEN t.val ELSE 0
        s2 == mangleName(PopBlock(t.st), "if.else")
        elseBlk == LastBlock(s2)
        e == IF n.Else = Nil THEN Res(PushBlock(s2, elseBlk), 0, "nil")
             ELSE Codegen(n.Else, PushBlock(s2, elseBlk))
        elseGenBlk == IF n.Else # Nil /\ e.err = "nil" THEN e.val ELSE 0
        s3 == mangleName(PopBlock(e.st), "if.end")
        endBlk == LastBlock(s3)
        s4 == branchIfNoTerminator(PushBlock(s3, endBlk), thenBlk, endBlk)
        s5 == branchIfNoTerminator(branchIfNoTerminator(s4, thenGenBlk, endBlk),
                                   elseBlk, endBlk)
        s6 == IF elseGenBlk # 0 THEN branchIfNoTerminator(s5, elseGenBlk, endBlk)
              ELSE s5
        s7 == NewCondBr(s6, parentBlock, thenBlk, elseBlk)
    IN IF p.err # "nil" THEN Res(p.st, 0, p.err)
       ELSE IF c.err # "nil" THEN Res(c.st, 0, c.err)
       ELSE IF t.err = "panic" THEN Res(t.st, 0, "panic")
       ELSE IF e.err = "panic" THEN Res(e.st, 0, "panic")
       ELSE IF thenGenBlk = 0 THEN Res(s4, 0, "panic")
       ELSE Res(Logged(s7, [kind |-> "if", parent |-> parentBlock,
                            then |-> thenBlk, else |-> elseBlk, end |-> endBlk,
                            gens |-> {thenGenBlk, elseGenBlk} \ {0},
                            bodies |-> Terms(s3), terms |-> Terms(s7),
                            current |-> CurrentBlock(s7)]),
                endBlk, "nil")

\* WhileNode.Codegen: the start block, the predicate and its cast
WhileNodeCodegen(n, st) ==
    LET parentBlock == CurrentBlock(st)
        s1 == mangleName(st, "while.start")
        startblock == LastBlock(s1)
        p == Codegen(n.If, PushBlock(s1, startblock))
        s2 == branchIfNoTerminator(PopBlock(p.st), parentBlock, startblock)
    IN WhileNodeBlocks(n, st, startblock, p, TypeCast(s2, p.val, "i1"))

\* WhileNode.Codegen from the comparison on: p is the lowering of the
\* predicate, c the cast of its value
WhileNodeBlocks(n, st, startblock, p, c) ==
    LET parentBlock == CurrentBlock(st)
        s3 == mangleName(Emit(c.st, startblock, ICmp), "while.body")
        bodyBlk == LastBlock(s3)
        b == Codegen(n.Body, PushBlock(s3, bodyBlk))
        bodyGenBlk == b.val
        s4 == mangleName(b.st, "while.merge")
        endBlk == LastBlock(s4)
        s5 == branchIfNoTerminator(PushBlock(s4, endBlk), bodyBlk, startblock)
        s6 == branchIfNoTerminator(s5, bodyGenBlk, startblock)
        s7 == NewCondBr(s6, startblock, bodyBlk, endBlk)
    IN IF p.err # "nil" THEN Res(p.st, 0, p.err)
       ELSE IF c.err # "nil" THEN Res(c.st, 0, c.err)
       ELSE IF b.err # "nil" THEN Res(b.st, 0, b.err)
       ELSE Res(Logged(s7, [kind |-> "while", parent |-> parentBlock,
                            start |-> startblock, body |-> bodyBlk,
                            gen |-> bodyGenBlk, merge |-> endBlk,
                            predicate |-> n.If,
                            before |-> st.Blocks[parentBlock],
                            bodies |-> Terms(s4), after |-> s7.Blocks,
                            current |-> CurrentBlock(s7)]),
                endBlk, "nil")

\* ForNode.Codegen: the child scope, the initializer, the condition and
\* its cast
ForNodeCodegen(n, st) ==
    LET parentBlock == CurrentBlock(st)
        s1 == NewBlock(ScopeSpawnChild(st), "for.cond")
        condBlk == LastBlock(s1)
        i == Codegen(n.Init, s1)
        s2 == PushBlock(NewBr(i.st, parentBlock, condBlk), condBlk)
        p == Codegen(n.Cond, s2)
    IN ForNodeBlocks(n, condBlk, i, p, TypeCast(p.st, p.val, "i1"))

\* ForNode.Codegen from the comparison on: i and p are the lowerings of the
\* initializer and the condition, c the cast of the condition's value
ForNodeBlocks(n, condBlk, i, p, c) ==
    LET s3 == NewBlock(PopBlock(Emit(c.st, condBlk, ICmp)), "for.body")
        bodyBlk == LastBlock(s3)
        b == Codegen(n.Body, PushBlock(s3, bodyBlk))
        bodyGenBlk == b.val
        step == Codegen(n.Step, PushBlock(b.st, bodyGenBlk))
        s4 == branchIfNoTerminator(PopBlock(step.st), bodyBlk, condBlk)
        s5 == branchIfNoTerminator(s4, bodyGenBlk, condBlk)
        s6 == PopBlock(IF b.err # "nil" THEN b.st
                       ELSE IF step.err # "nil" THEN PopBlock(step.st)
                       ELSE s5)
        s7 == NewBlock(s6, "for.end")
        endBlk == LastBlock(s7)
        s8 == NewCondBr(PushBlock(s7, endBlk), condBlk, bodyBlk, endBlk)
    IN IF i.err = "panic" THEN Res(i.st, 0, "panic")
       ELSE IF p.err # "nil" THEN Res(p.st, 0, "panic")
       ELSE IF c.err # "nil" THEN Res(PopBlock(c.st), 0, c.err)
       ELSE IF b.err = "panic" THEN Res(b.st, 0, "panic")
       ELSE IF b.err = "nil" /\ step.err = "panic" THEN Res(step.st, 0, "panic")
       ELSE Res(ScopeParent(s8), endBlk, "nil")

\* Node.Codegen
Codegen(n, st) ==
    CASE n.kind = "expr" ->
           Res(Emit(st, CurrentBlock(st), [op |-> "load", Typ |-> n.Typ]),
               Value("value", n.Typ), "nil")
      [] n.kind = "stmt" ->
           Res(Emit(st, CurrentBlock(st), [op |-> "store", Typ |-> "void"]), 0, "nil")
      [] n.kind = "return" -> Res(NewRet(st, CurrentBlock(st)), 0, "nil")
      [] n.kind = "block" -> BlockNodeCodegen(n.Nodes, st)
      [] n.kind = "if" -> IfNodeCodegen(n, st)
      [] n.kind = "while" -> WhileNodeCodegen(n, st)
      [] n.kind = "for" -> ForNodeCodegen(n, st)
      [] OTHER -> Res(st, 0, "error")

\* a call of Codegen on a node, in the entry block of a function
Lower(n) ==
    LET st == Entry(Scope)
        r == Codegen(n, st)
    IN /\ ~lowering.called
       /\ lowering' = [called |-> TRUE, node |-> n, before |-> st,
                       after |-> r.st, val |-> r.val, err |-> r.err]
       /\ Scope' = r.st.Scope
       /\ scopeParent' = [s \in ScopeIds |->
                            IF s <= Len(r.st.scopeParent) THEN r.st.scopeParent[s]
                            ELSE 0]
       /\ UNCHANGED <<Functions, Package, RootPackageName, Compiler, Variants,
                      NameCache, stack, ret, declRuns, genRuns, first>>
       /\ UNCHANGED <<loadVars, castVars, congealVars>>
CallIfNodeCodegen == \E n \in IfNodes : Lower(n)
CallWhileNodeCodegen == \E n \in WhileNodes : Lower(n)
CallForNodeCodegen == \E n \in ForNodes : Lower(n)

NextLower ==
    \/ CallIfNodeCodegen
    \/ CallWhileNodeCodegen
    \/ CallForNodeCodegen
InitLower ==
    /\ NewProgram(<<>>) /\ first = Untracked
    /\ LoadAtRest /\ CastAtRest /\ CongealAtRest /\ LowerAtRest
SpecLower == InitLower /\ [][NextLower]_vars

LogOf(kind) ==
    IF lowering.called
    THEN {lowering.after.log[i] : i \in {x \in 1..Len(lowering.after.log) :
                                            lowering.after.log[x].kind = kind}}
    ELSE {}
Br(to) == [op |-> "br", to |-> <<to>>]
CondBr(then, else) == [op |-> "condbr", to |-> <<then, else>>]

\* C17: after IfNode.Codegen returns successfully, with or without an
\* else-body and for nested ifs, the parent block ends in a conditional branch
\* to the then and else blocks; the then block, the else block and the last
\* block of each body have a terminator; a block that ended in a return keeps
\* it and gets no branch to end; a block whose terminator slot was empty gets
\* the branch to end; and end is the current block.
C17_IfBlocksTerminated ==
    /\ \A e \in LogOf("if") :
          /\ e.terms[e.parent] = CondBr(e.then, e.else)
          /\ \A b \in {e.then, e.else} \cup e.gens :
                /\ e.terms[b] # NoTerm
                /\ e.terms[b] = IF e.bodies[b] = NoTerm THEN Br(e.end) ELSE e.bodies[b]
          /\ e.terms[e.end] = NoTerm
          /\ e.current = e.end
    /\ (lowering.called /\ lowering.node.kind = "if" /\ lowering.err = "nil")
          => /\ lowering.val = CurrentBlock(lowering.after)
             /\ \E e \in LogOf("if") : e.end = lowering.val /\ e.parent = 1
C17_Witness ==
    /\ lowering.called /\ lowering.node.kind = "if" /\ lowering.err = "nil"
    /\ lowering.node.Else # Nil
    /\ Cardinality(LogOf("if")) >= 2
    /\ \E e \in LogOf("if") : \E b \in {e.then} \cup e.gens :
          e.terms[b].op = "ret" /\ e.terms[e.else] = Br(e.end)

\* C18: after ForNode.Codegen returns, successfully or with an error of the
\* condition, of its cast, of the body or of the step, the active Scope is
\* the scope that was active before the call.
C18_ForScopePopped ==
    (lowering.called /\ lowering.node.kind = "for"
        /\ lowering.err \in {"nil", "error"})
      => Scope = lowering.before.Scope

\* C20: in WhileNode lowering the instructions of the predicate, of its cast
\* to i1 and of the comparison with 1 are all appended to the start block and
\* none to the parent block; the parent block gets a branch to start only when
\* its terminator slot is empty; start ends in a conditional branch to body
\* and merge; the last block of the body branches back to start unless it is
\* terminated; and merge is the current block afterwards.
C20_WhileAsStated ==
    \A e \in LogOf("while") :
        LET typ == e.predicate.Typ
            castInsts == createTypeCast(Value("value", typ), "i1").emitted
        IN /\ e.after[e.start].Insts =
                 <<[op |-> "load", Typ |-> typ]>> \o castInsts \o <<ICmp>>
           /\ e.after[e.parent].Insts = e.before.Insts
           /\ e.after[e.parent].Term =
                 IF e.before.Term = NoTerm THEN Br(e.start) ELSE e.before.Term
           /\ e.after[e.start].Term = CondBr(e.body, e.merge)
           /\ e.after[e.gen].Term =
                 IF e.bodies[e.gen] = NoTerm THEN Br(e.start) ELSE e.bodies[e.gen]
           /\ e.current = e.merge

\* the lowering of a part of the node of the call fails with an error (for
\* the nodes above this does not depend on the blocks it is lowered into)
Fails(part) == Codegen(part, lowering.before).err = "error"
\* the predicate lowers and its value can be cast to the type
Tested(part, to) ==
    LET p == Codegen(part, lowering.before)
    IN p.err = "nil" /\ TypeCast(p.st, p.val, to).err = "nil"
\* the call lowered the then-body or the else-body of an If and it failed
IfBodyFailed ==
    /\ lowering.called /\ lowering.node.kind = "if"
    /\ Tested(lowering.node.If, "i32")
    /\ \/ Fails(lowering.node.Then)
       \/ lowering.node.Else # Nil /\ Fails(lowering.node.Else)
\* the call lowered the init, the condition, the body or the step of a For
\* and it failed
ForPartFailed ==
    /\ lowering.called /\ lowering.node.kind = "for"
    /\ \/ Fails(lowering.node.Init)
       \/ Fails(lowering.node.Cond)
       \/ /\ Tested(lowering.node.Cond, "i1")
          /\ \/ Fails(lowering.node.Body)
             \/ ~Fails(lowering.node.Body) /\ Fails(lowering.node.Step)

\* C21: when the lowering of the then-body or else-body of an If, or of the
\* init, condition, body or step of a For, fails with an error, the Codegen
\* of that If or For returns an error to its caller: it does not return
\* success, and makes no block after the failed part.
C21_PartErrorsReturned ==
    (IfBodyFailed \/ ForPartFailed)
      => /\ lowering.err = "error"
         /\ Len(lowering.after.Blocks) <= Len(lowering.before.Blocks) + 2
====
